---- MODULE Spec2Model ----
(***************************************************************************)
(* Balance & alert scheduling core of telegram-balance-bot.                *)
(*                                                                         *)
(* Money is counted in hundredths of the currency unit (10.0 USD = 1000).  *)
(* A datetime is a record [year, month, day, hour, minute]; the wall clock *)
(* `now` and every value computed by the code are local times of TIMEZONE  *)
(* (Asia/Makassar, UTC+8, no daylight saving).  The store (SQLite DateTime *)
(* column) keeps the wall-clock fields only; a value read back is naive    *)
(* and `astimezone(TIMEZONE)` interprets it in the system time zone.       *)
(***************************************************************************)
EXTENDS Integers, Sequences, FiniteSets, TLC

\* ------------------------------------------------------------ configuration

\* src/config.py: financial constants, in hundredths.
LOW_BALANCE_THRESHOLD == 1000
MIN_TOP_UP_AMOUNT == 500
CALLII_DAILY_COST == 220
WAZZUP_DAILY_COST == 40000

\* UTC offset of TIMEZONE = pytz.timezone('Asia/Makassar'), in hours.
TIMEZONE == 8

\* Fixed reminder time of day (replace(hour=10, minute=0); hour=10, minute=0).
ALERT_HOUR == 10
ALERT_MINUTE == 0

\* Target day-of-month of the monthly services.
TARGET_DAY_11 == 11
TARGET_DAY_20 == 20

\* Value returned by a client when the balance is unavailable (Python None).
None == -1

\* API_CLIENTS, in iteration order.
API_CLIENTS == <<"Zadarma", "DIDWW">>
ApiNames == {API_CLIENTS[i] : i \in 1..Len(API_CLIENTS)}

\* Names of the seeded catalog (services_to_add), in insertion order.
Catalog == <<"Zadarma", "Wazzup24 Sub", "Wazzup24 Balance", "DIDWW", "Callii", "Streamtele">>
ServiceNames == {Catalog[i] : i \in 1..Len(Catalog)}
DailyNames == {"Wazzup24 Balance", "Callii"}
MonthlyNames == {"Wazzup24 Sub", "DIDWW", "Streamtele"}

\* ------------------------------------------------------------------ bounds

\* Balances the providers report in the model.
Balances == {0, 300, 800, 1000, 1200, 2000}
\* The per-run notification counters stop counting at MaxCount.
MaxCount == 2

Min(a, b) == IF a <= b THEN a ELSE b

\* ---------------------------------------------------------------- datetimes

Dt(y, m, d, h, mi) == [year |-> y, month |-> m, day |-> d, hour |-> h, minute |-> mi]

\* A NULL DateTime column.
NoDate == Dt(0, 0, 0, 0, 0)

IsLeap(y) == (y % 4 = 0 /\ y % 100 /= 0) \/ y % 400 = 0

\* calendar.monthrange(year, month)[1]
DaysInMonth(y, m) ==
    IF m = 2 THEN (IF IsLeap(y) THEN 29 ELSE 28)
    ELSE IF m \in {4, 6, 9, 11} THEN 30 ELSE 31

\* Order of datetimes (a >= b iff DtKey(a) >= DtKey(b)) and of their dates.
DateKey(dt) == (dt.year * 12 + dt.month) * 31 + dt.day
DtKey(dt) == (DateKey(dt) * 24 + dt.hour) * 60 + dt.minute

NextDay(dt) ==
    IF dt.day < DaysInMonth(dt.year, dt.month) THEN [dt EXCEPT !.day = dt.day + 1]
    ELSE IF dt.month < 12 THEN [dt EXCEPT !.day = 1, !.month = dt.month + 1]
    ELSE [dt EXCEPT !.day = 1, !.month = 1, !.year = dt.year + 1]

\* dt + timedelta(days=n), n >= 0 (TIMEZONE has a fixed offset).
RECURSIVE AddDays(_, _)
AddDays(dt, n) ==
    IF dt.day + n <= DaysInMonth(dt.year, dt.month) THEN [dt EXCEPT !.day = dt.day + n]
    ELSE AddDays(NextDay([dt EXCEPT !.day = DaysInMonth(dt.year, dt.month)]),
                 n - (DaysInMonth(dt.year, dt.month) - dt.day + 1))

\* dt + timedelta(hours=h), 0 <= h < 24.
AddHours(dt, h) ==
    IF dt.hour + h < 24 THEN [dt EXCEPT !.hour = dt.hour + h]
    ELSE [NextDay(dt) EXCEPT !.hour = dt.hour + h - 24]

\* value.astimezone(TIMEZONE) of a value read from the store: the column keeps
\* no tzinfo, so the naive value is taken as a local time of the system time
\* zone (UTC offset sysOff) and converted to TIMEZONE.
AsTimezone(naive, sysOff) == AddHours(naive, TIMEZONE - sysOff)

\* Mutant: the target day is not clamped to the month's length.
NextMonthlyDatetime_NoClamp(current_date, target_day) ==
    LET month == IF current_date.month + 1 > 12 THEN 1 ELSE current_date.month + 1
        year  == IF current_date.month + 1 > 12 THEN current_date.year + 1
                 ELSE current_date.year
    IN  Dt(year, month, target_day, ALERT_HOUR, ALERT_MINUTE)

\* _next_monthly_datetime(current_date, target_day), current_date a local time
\* of TIMEZONE: the target day of the following month, clamped, at 10:00.
NextMonthlyDatetime(current_date, target_day) ==
    LET base  == current_date
        month == IF base.month + 1 > 12 THEN 1 ELSE base.month + 1
        year  == IF base.month + 1 > 12 THEN base.year + 1 ELSE base.year
        last_day == DaysInMonth(year, month)
        day   == Min(target_day, last_day)
    IN  Dt(year, month, day, ALERT_HOUR, ALERT_MINUTE)

VARIABLES
    services,       \* the services table: name -> record (the persistent store)
    enabled,        \* SETTINGS.API_SERVICE_STATUSES: API name -> BOOLEAN
    sysUtcOffset,   \* UTC offset (hours) of the system time zone of the host
    now,            \* wall clock, local time of TIMEZONE
    fsm,            \* FSM state of the operator's conversation (MemoryStorage)
    apiCycle,       \* per API service: what the last check_api_balances did
    apiRun,         \* per API service: counters over the current run below threshold
    planned,        \* what the last check_planned_alerts did
    capture,        \* what the last payment-capture handler did
    monthlyCall,    \* last call of _next_monthly_datetime: arguments and result
    loop,           \* the scheduler_loop task: where it is suspended, cancellation
    tick            \* a check_planned_alerts call in progress: its session and position

vars == <<services, enabled, sysUtcOffset, now, fsm, apiCycle, apiRun, planned,
          capture, monthlyCall, loop, tick>>

\* ------------------------------------------------- balance provider adapters

\* What the provider's HTTP endpoint does in one call.
Responses ==
    [kind : {"ok"}, balance : Balances]
        \cup [kind : {"api_error", "exception"}, balance : {0}]

\* ZadarmaClient.get_balance: the balance on success; 0.0 on an API error
\* (status /= 200 or status field /= 'success') and on any exception.
ZadarmaGetBalance(resp) ==
    IF resp.kind = "ok" THEN resp.balance ELSE 0

\* DIDWWClient.get_balance: the balance on success; None on 404, non-JSON,
\* undecodable or unexpected data, and on any exception.
DIDWWGetBalance(resp) ==
    IF resp.kind = "ok" THEN resp.balance ELSE None

\* client.get_balance() of API_CLIENTS[name].
GetBalance(name, resp) ==
    IF name = "Zadarma" THEN ZadarmaGetBalance(resp) ELSE DIDWWGetBalance(resp)

\* A reduced set of provider behaviours, for the specifications that compose
\* the balance check with other operations: both providers report 20.0, or
\* both requests fail.
RecordsResponses ==
    { [n \in ApiNames |-> [kind |-> "ok", balance |-> 2000]],
      [n \in ApiNames |-> [kind |-> "exception", balance |-> 0]] }

\* ------------------------------------------------------- check_api_balances

\* Outcomes of the collaborators' calls in one service's processing:
\* whether each bot.send_message and session.commit returns or raises.
Faults == [topup_send : BOOLEAN, low_send : BOOLEAN, commit : BOOLEAN]
NoFaults == [topup_send |-> TRUE, low_send |-> TRUE, commit |-> TRUE]

\* Mutant: the comparison is not strict.
TopUpDetected_Inclusive(current_balance, last_balance) ==
    current_balance >= last_balance + MIN_TOP_UP_AMOUNT

\* "if current_balance > last_balance + SETTINGS.MIN_TOP_UP_AMOUNT"
TopUpDetected(current_balance, last_balance) ==
    current_balance > last_balance + MIN_TOP_UP_AMOUNT

\* The latch after the top-up branch: reset when a top-up was detected.
LatchAfterTopUp(topup, latch) ==
    IF topup THEN FALSE ELSE latch

\* "if current_balance < LOW_BALANCE_THRESHOLD: if not low_balance_alert_sent"
LowBalanceAlertDue(current_balance, latch) ==
    current_balance < LOW_BALANCE_THRESHOLD /\ ~latch

\* Mutant: the latch is not set after the alert.
LatchAfterLowCheck_NeverSet(current_balance, latch) ==
    IF current_balance < LOW_BALANCE_THRESHOLD THEN latch ELSE FALSE

\* Mutant: the latch is not cleared at or above the threshold.
LatchAfterLowCheck_NoReset(current_balance, latch) ==
    IF current_balance < LOW_BALANCE_THRESHOLD THEN TRUE ELSE latch

\* The latch after the low-balance branch.
LatchAfterLowCheck(current_balance, latch) ==
    IF current_balance < LOW_BALANCE_THRESHOLD
    THEN TRUE      \* either already set, or set after the alert
    ELSE FALSE     \* elif current_balance >= LOW_BALANCE_THRESHOLD

\* Mutant: after an exception the in-memory changes are persisted all the same.
ClassifyBalance_NoRollback(service, current_balance, f) ==
    LET last_balance == service.last_balance
        topup  == TopUpDetected(current_balance, last_balance)
        latch1 == LatchAfterTopUp(topup, service.low_balance_alert_sent)
        low    == LowBalanceAlertDue(current_balance, latch1)
        latch2 == LatchAfterLowCheck(current_balance, latch1)
        topupRaised == topup /\ ~f.topup_send
        lowRaised   == ~topupRaised /\ low /\ ~f.low_send
        raised == topupRaised \/ lowRaised \/ ~f.commit
    IN  [ topup_tried |-> topup,
          topup_sent  |-> topup /\ f.topup_send,
          low_tried   |-> ~topupRaised /\ low,
          low_sent    |-> ~topupRaised /\ low /\ f.low_send,
          outcome     |-> IF raised THEN "rolled_back" ELSE "committed",
          service     |-> [service EXCEPT !.low_balance_alert_sent = latch2,
                                          !.last_balance = current_balance] ]

\* Mutant: the fetched balance is stored only when a notification was sent.
ClassifyBalance_BalanceOnlyOnAlert(service, current_balance, f) ==
    LET last_balance == service.last_balance
        topup  == TopUpDetected(current_balance, last_balance)
        latch1 == LatchAfterTopUp(topup, service.low_balance_alert_sent)
        low    == LowBalanceAlertDue(current_balance, latch1)
        latch2 == LatchAfterLowCheck(current_balance, latch1)
        raised == (topup /\ ~f.topup_send) \/ (low /\ ~f.low_send) \/ ~f.commit
    IN  [ topup_tried |-> topup,
          topup_sent  |-> topup /\ f.topup_send,
          low_tried   |-> low,
          low_sent    |-> low /\ f.low_send,
          outcome     |-> IF raised THEN "rolled_back" ELSE "committed",
          service     |-> IF raised THEN service
                          ELSE [service EXCEPT
                                  !.low_balance_alert_sent = latch2,
                                  !.last_balance = IF topup \/ low
                                                   THEN current_balance
                                                   ELSE last_balance] ]

\* The body of the try block for one service whose balance is available and
\* whose record exists: the notifications sent, the record as persisted and
\* how the processing ended.  An exception raised by a send or by the commit
\* ends it in the except branch (session.rollback()).
ClassifyBalance(service, current_balance, f) ==
    LET last_balance == service.last_balance
        topup  == TopUpDetected(current_balance, last_balance)
        latch1 == LatchAfterTopUp(topup, service.low_balance_alert_sent)
        low    == LowBalanceAlertDue(current_balance, latch1)
        latch2 == LatchAfterLowCheck(current_balance, latch1)
        topupRaised == topup /\ ~f.topup_send
        lowRaised   == ~topupRaised /\ low /\ ~f.low_send
        raised == topupRaised \/ lowRaised \/ ~f.commit
    IN  [ topup_tried |-> topup,
          topup_sent  |-> topup /\ f.topup_send,
          low_tried   |-> ~topupRaised /\ low,
          low_sent    |-> ~topupRaised /\ low /\ f.low_send,
          outcome     |-> IF raised THEN "rolled_back" ELSE "committed",
          service     |-> IF raised THEN service
                          ELSE [service EXCEPT !.low_balance_alert_sent = latch2,
                                               !.last_balance = current_balance] ]

NoCycle ==
    [ status |-> "none", response |-> "none", fetched |-> None, prev_balance |-> 0,
      prev_latch |-> FALSE, topup_tried |-> FALSE, topup_sent |-> FALSE,
      low_tried |-> FALSE, low_sent |-> FALSE ]

\* Mutant: the configuration switch is not consulted.
ApiIteration_IgnoresSwitch(name, service, isEnabled, resp, f) ==
    LET current_balance == GetBalance(name, resp)
        base == [NoCycle EXCEPT !.prev_balance = service.last_balance,
                                !.prev_latch = service.low_balance_alert_sent]
    IN  IF current_balance = None
        THEN [cycle |-> [base EXCEPT !.status = "unavailable", !.response = resp.kind],
              service |-> service]
        ELSE LET c == ClassifyBalance(service, current_balance, f)
             IN  [cycle |-> [base EXCEPT !.status = c.outcome,
                                         !.response = resp.kind,
                                         !.fetched = current_balance,
                                         !.topup_tried = c.topup_tried,
                                         !.topup_sent = c.topup_sent,
                                         !.low_tried = c.low_tried,
                                         !.low_sent = c.low_sent],
                  service |-> c.service]

\* One iteration of "for service_name, client in API_CLIENTS.items()" (the
\* record of an API service always exists: the catalog is seeded at startup).
\* status: "disabled" (skipped by the config switch), "unavailable"
\* (get_balance returned None), "committed" or "rolled_back"; response: what
\* the provider did when it was called; fetched: the value get_balance returned.
ApiIteration(name, service, isEnabled, resp, f) ==
    LET current_balance == GetBalance(name, resp)
        base == [NoCycle EXCEPT !.prev_balance = service.last_balance,
                                !.prev_latch = service.low_balance_alert_sent]
    IN  IF ~isEnabled
        THEN [cycle |-> [base EXCEPT !.status = "disabled"], service |-> service]
        ELSE IF current_balance = None
        THEN [cycle |-> [base EXCEPT !.status = "unavailable", !.response = resp.kind],
              service |-> service]
        ELSE LET c == ClassifyBalance(service, current_balance, f)
             IN  [cycle |-> [base EXCEPT !.status = c.outcome,
                                         !.response = resp.kind,
                                         !.fetched = current_balance,
                                         !.topup_tried = c.topup_tried,
                                         !.topup_sent = c.topup_sent,
                                         !.low_tried = c.low_tried,
                                         !.low_sent = c.low_sent],
                  service |-> c.service]

Bump(n) == Min(n + 1, MaxCount)

NoRun == [lows |-> 0, rearms |-> 0, failed_fetch |-> FALSE]

\* History of the current maximal run of consecutive classified balances below
\* the threshold: low-balance notifications sent in it, top-ups detected in it
\* while the latch was set, and whether a failed fetch was classified in it.
RunAfter(run, cycle) ==
    IF cycle.status \notin {"committed", "rolled_back"} THEN run
    ELSE IF cycle.fetched >= LOW_BALANCE_THRESHOLD THEN NoRun
    ELSE [ lows   |-> IF cycle.low_sent THEN Bump(run.lows) ELSE run.lows,
           rearms |-> IF cycle.topup_tried /\ cycle.prev_latch
                      THEN Bump(run.rearms) ELSE run.rearms,
           failed_fetch |-> run.failed_fetch \/ cycle.response /= "ok" ]

\* check_api_balances(bot, session): every API service in turn.
CheckApiBalancesWith(resp, f) ==
    LET it(n) == ApiIteration(n, services[n], enabled[n], resp[n], f[n])
    IN  /\ services' = [n \in ServiceNames |->
                            IF n \in ApiNames THEN it(n).service ELSE services[n]]
        /\ apiCycle' = [n \in ApiNames |-> it(n).cycle]
        /\ apiRun' = [n \in ApiNames |-> RunAfter(apiRun[n], it(n).cycle)]
        /\ UNCHANGED <<enabled, sysUtcOffset, now, fsm, planned, capture, monthlyCall, tick>>

\* A tick in which no send and no commit raises.
CheckApiBalances ==
    /\ \E resp \in [ApiNames -> Responses] :
           CheckApiBalancesWith(resp, [n \in ApiNames |-> NoFaults])
    /\ UNCHANGED loop

\* Provider behaviours of the ticks with failures: 8.0, 20.0, or a failed
\* request.
FaultyTickResponses ==
    {r \in Responses : r.kind = "ok" => r.balance \in {800, 2000}}

\* A tick in which, for one of the services, the sends and the commit may
\* raise.
CheckApiBalancesFaulty ==
    /\ \E resp \in [ApiNames -> FaultyTickResponses], bad \in ApiNames, f \in Faults :
           CheckApiBalancesWith(resp, [n \in ApiNames |-> IF n = bad THEN f ELSE NoFaults])
    /\ UNCHANGED loop

\* ----------------------------------------------------- check_planned_alerts

\* target_day passed to _next_monthly_datetime for each monthly service.
TargetDay(name) == IF name = "DIDWW" THEN TARGET_DAY_20 ELSE TARGET_DAY_11

\* Rows selected by "next_alert_date IS NOT NULL" / "next_monthly_alert IS NOT
\* NULL", in table order.
DailyServices(svc) ==
    SelectSeq(Catalog, LAMBDA n : svc[n].next_alert_date /= NoDate)
MonthlyServices(svc) ==
    SelectSeq(Catalog, LAMBDA n : svc[n].next_monthly_alert /= NoDate)

\* Mutant: the daily check compares full timestamps.
DailyDue_Timestamp(next_alert_date, now_in_tz, sysOff) ==
    DtKey(AsTimezone(next_alert_date, sysOff)) <= DtKey(now_in_tz)

\* "service.next_alert_date.astimezone(TIMEZONE).date() <= today_date"
DailyDue(next_alert_date, now_in_tz, sysOff) ==
    DateKey(AsTimezone(next_alert_date, sysOff)) <= DateKey(now_in_tz)

\* Mutant: the monthly check compares dates only.
MonthlyDue_DateOnly(next_monthly_alert, now_in_tz, sysOff) ==
    DateKey(now_in_tz) >= DateKey(AsTimezone(next_monthly_alert, sysOff))

\* "now_in_tz >= alert_dt", alert_dt = next_monthly_alert.astimezone(TIMEZONE)
MonthlyDue(next_monthly_alert, now_in_tz, sysOff) ==
    DtKey(now_in_tz) >= DtKey(AsTimezone(next_monthly_alert, sysOff))

\* Mutant: the new date stays in the month of the old one.
AdvancedMonthlyAlert_SameMonth(name, next_monthly_alert, sysOff) ==
    [AsTimezone(next_monthly_alert, sysOff) EXCEPT
        !.day = TargetDay(name), !.hour = ALERT_HOUR, !.minute = ALERT_MINUTE]

\* Mutant: the new date is the month after the tick, not after the old date.
AdvancedMonthlyAlert_FromNow(name, next_monthly_alert, sysOff) ==
    NextMonthlyDatetime(now, TargetDay(name))

\* The value assigned to service.next_monthly_alert when the reminder fired.
AdvancedMonthlyAlert(name, next_monthly_alert, sysOff) ==
    NextMonthlyDatetime(AsTimezone(next_monthly_alert, sysOff), TargetDay(name))

\* Whether each bot.send_message / session.commit for a service returns (TRUE)
\* or raises (FALSE) during one check_planned_alerts.
PlannedFaults == [send : [ServiceNames -> BOOLEAN], commit : [ServiceNames -> BOOLEAN]]
NoPlannedFaults ==
    [send |-> [n \in ServiceNames |-> TRUE], commit |-> [n \in ServiceNames |-> TRUE]]

\* One iteration of "for service in daily_services".  An exception is not
\* caught inside check_planned_alerts: it ends the whole call.
DailyIteration(acc, name, now_in_tz, sysOff, f) ==
    IF acc.raised \/ ~DailyDue(acc.services[name].next_alert_date, now_in_tz, sysOff)
       \/ name \notin {"Callii", "Wazzup24 Balance"}
    THEN acc
    ELSE IF f.send[name]
    THEN [acc EXCEPT !.tried = @ \cup {name}, !.reminded = @ \cup {name}]
    ELSE [acc EXCEPT !.tried = @ \cup {name}, !.raised = TRUE]

\* Mutant: the new date is assigned and committed before the reminder is sent.
MonthlyIteration_AdvanceBeforeSend(acc, name, now_in_tz, sysOff, f) ==
    IF acc.raised \/ ~MonthlyDue(acc.services[name].next_monthly_alert, now_in_tz, sysOff)
    THEN acc
    ELSE IF name \notin {"Streamtele", "Wazzup24 Sub", "DIDWW"}
    THEN [acc EXCEPT !.raised = ~f.commit[name]]
    ELSE IF ~f.commit[name]
    THEN [acc EXCEPT !.tried = @ \cup {name}, !.raised = TRUE]
    ELSE IF ~f.send[name]
    THEN [acc EXCEPT !.tried = @ \cup {name}, !.raised = TRUE,
                     !.services[name].next_monthly_alert =
                         AdvancedMonthlyAlert(name, @, sysOff)]
    ELSE [acc EXCEPT !.tried = @ \cup {name}, !.reminded = @ \cup {name},
                     !.services[name].next_monthly_alert =
                         AdvancedMonthlyAlert(name, @, sysOff)]

\* One iteration of "for service in monthly_services": reminder, new date,
\* commit.
MonthlyIteration(acc, name, now_in_tz, sysOff, f) ==
    IF acc.raised \/ ~MonthlyDue(acc.services[name].next_monthly_alert, now_in_tz, sysOff)
    THEN acc
    ELSE IF name \notin {"Streamtele", "Wazzup24 Sub", "DIDWW"}
    THEN [acc EXCEPT !.raised = ~f.commit[name]]
    ELSE IF ~f.send[name]
    THEN [acc EXCEPT !.tried = @ \cup {name}, !.raised = TRUE]
    ELSE IF ~f.commit[name]
    THEN [acc EXCEPT !.tried = @ \cup {name}, !.reminded = @ \cup {name},
                     !.raised = TRUE]
    ELSE [acc EXCEPT !.tried = @ \cup {name}, !.reminded = @ \cup {name},
                     !.services[name].next_monthly_alert =
                         AdvancedMonthlyAlert(name, @, sysOff)]

RECURSIVE DailyLoop(_, _, _, _, _)
DailyLoop(acc, names, now_in_tz, sysOff, f) ==
    IF names = <<>> THEN acc
    ELSE DailyLoop(DailyIteration(acc, Head(names), now_in_tz, sysOff, f),
                   Tail(names), now_in_tz, sysOff, f)

RECURSIVE MonthlyLoop(_, _, _, _, _)
MonthlyLoop(acc, names, now_in_tz, sysOff, f) ==
    IF names = <<>> THEN acc
    ELSE MonthlyLoop(MonthlyIteration(acc, Head(names), now_in_tz, sysOff, f),
                     Tail(names), now_in_tz, sysOff, f)

\* check_planned_alerts run at now_in_tz on the table svc: the table as
\* persisted afterwards, the reminders tried and sent, and whether it raised.
PlannedAlerts(svc, now_in_tz, sysOff, f) ==
    LET start == [services |-> svc, tried |-> {}, reminded |-> {}, raised |-> FALSE]
        daily == DailyLoop(start, DailyServices(svc), now_in_tz, sysOff, f)
    IN  MonthlyLoop(daily, MonthlyServices(svc), now_in_tz, sysOff, f)

DueDates(svc) ==
    [n \in ServiceNames |-> [next_alert_date |-> svc[n].next_alert_date,
                             next_monthly_alert |-> svc[n].next_monthly_alert]]

\* Nothing has run at the current instant.
NoPlanned == [ran |-> FALSE, before |-> <<>>, tried |-> {}, reminded |-> {}, raised |-> FALSE]

CheckPlannedAlertsWith(f) ==
    LET r == PlannedAlerts(services, now, sysUtcOffset, f)
    IN  /\ services' = r.services
        /\ planned' = [ran |-> TRUE, before |-> DueDates(services),
                       tried |-> r.tried, reminded |-> r.reminded, raised |-> r.raised]
        /\ UNCHANGED <<enabled, sysUtcOffset, now, fsm, apiCycle, apiRun, capture,
                       monthlyCall, tick>>

\* A tick in which no send and no commit raises.
CheckPlannedAlerts ==
    /\ CheckPlannedAlertsWith(NoPlannedFaults)
    /\ UNCHANGED loop

\* A tick in which, for one of the services, the send or the commit raises.
CheckPlannedAlertsFaulty ==
    /\ \E bad \in ServiceNames, kind \in {"send", "commit"} :
           CheckPlannedAlertsWith(
               [send   |-> [n \in ServiceNames |-> ~(n = bad /\ kind = "send")],
                commit |-> [n \in ServiceNames |-> ~(n = bad /\ kind = "commit")]])
    /\ UNCHANGED loop

\* ------------------------------- check_planned_alerts, one await at a time

\* No call in progress.  `loaded`: the rows in the session's identity map, as
\* they were when the session first selected them (with the attributes the
\* call assigned since); `todo`: the rest of the list being iterated;
\* `now_in_tz`: the time read at the beginning of the call; `reminded`: the
\* daily reminders the call sent; `stale_commit`: a commit was made while a
\* loaded row differed from the stored one.
NoTick ==
    [ phase |-> "idle", loaded |-> <<>>, todo |-> <<>>, now_in_tz |-> NoDate,
      reminded |-> {}, stale_commit |-> FALSE ]

\* The rows `names` enter the identity map: a row that is already there is
\* not refreshed by a later select.
Loaded(loaded, store, names) ==
    [ n \in DOMAIN loaded \cup names |->
          IF n \in DOMAIN loaded THEN loaded[n] ELSE store[n] ]

\* Mutant: the commit writes every loaded row back as the session holds it.
Flush_AllLoaded(store, loaded, dirty) ==
    [ n \in DOMAIN store |-> IF n \in DOMAIN loaded THEN loaded[n] ELSE store[n] ]

\* session.commit() in the monthly loop: the UPDATE carries the attributes
\* assigned in the session, next_monthly_alert of the rows in `dirty`.
Flush(store, loaded, dirty) ==
    [ n \in DOMAIN store |->
          IF n \in dirty
          THEN [store[n] EXCEPT !.next_monthly_alert = loaded[n].next_monthly_alert]
          ELSE store[n] ]

\* The call begins: now_in_tz is read and the daily rows are selected.
TickSelectDaily ==
    /\ tick.phase = "idle"
    /\ tick' = [ phase |-> "daily",
                 loaded |-> Loaded(<<>>, services,
                                   {n \in ServiceNames :
                                        services[n].next_alert_date /= NoDate}),
                 todo |-> DailyServices(services),
                 now_in_tz |-> now, reminded |-> {}, stale_commit |-> FALSE ]
    /\ UNCHANGED <<services, enabled, sysUtcOffset, now, fsm, apiCycle, apiRun, planned,
                   capture, monthlyCall, loop>>

\* One iteration of "for service in daily_services", on the loaded row; the
\* call is suspended in bot.send_message when the row is due.
TickDailyIteration ==
    /\ tick.phase = "daily" /\ tick.todo /= <<>>
    /\ LET name == Head(tick.todo)
           due == /\ DailyDue(tick.loaded[name].next_alert_date, tick.now_in_tz,
                              sysUtcOffset)
                  /\ name \in {"Callii", "Wazzup24 Balance"}
       IN  tick' = [tick EXCEPT !.todo = Tail(@),
                                !.reminded = IF due THEN @ \cup {name} ELSE @]
    /\ UNCHANGED <<services, enabled, sysUtcOffset, now, fsm, apiCycle, apiRun, planned,
                   capture, monthlyCall, loop>>

\* The daily loop is over: the monthly rows are selected in the same session.
TickSelectMonthly ==
    /\ tick.phase = "daily" /\ tick.todo = <<>>
    /\ tick' = [tick EXCEPT
                   !.phase = "monthly",
                   !.loaded = Loaded(@, services,
                                     {n \in ServiceNames :
                                          services[n].next_monthly_alert /= NoDate}),
                   !.todo = MonthlyServices(services)]
    /\ UNCHANGED <<services, enabled, sysUtcOffset, now, fsm, apiCycle, apiRun, planned,
                   capture, monthlyCall, loop>>

\* One iteration of "for service in monthly_services", on the loaded row:
\* reminder, assignment and commit when the row is due.
TickMonthlyIteration ==
    /\ tick.phase = "monthly" /\ tick.todo /= <<>>
    /\ LET name == Head(tick.todo)
           row == tick.loaded[name]
           due == /\ MonthlyDue(row.next_monthly_alert, tick.now_in_tz, sysUtcOffset)
                  /\ name \in {"Streamtele", "Wazzup24 Sub", "DIDWW"}
           after == IF due
                    THEN [tick.loaded EXCEPT
                             ![name].next_monthly_alert =
                                 AdvancedMonthlyAlert(name, @, sysUtcOffset)]
                    ELSE tick.loaded
           stale == \E n \in DOMAIN tick.loaded \ {name} : tick.loaded[n] /= services[n]
       IN  /\ services' = IF due THEN Flush(services, after, {name}) ELSE services
           /\ tick' = [tick EXCEPT !.todo = Tail(@), !.loaded = after,
                                   !.stale_commit = @ \/ (due /\ stale)]
    /\ UNCHANGED <<enabled, sysUtcOffset, now, fsm, apiCycle, apiRun, planned,
                   capture, monthlyCall, loop>>

\* The call returns and its session is closed.
TickReturn ==
    /\ tick.phase = "monthly" /\ tick.todo = <<>>
    /\ tick' = [tick EXCEPT !.phase = "idle", !.loaded = <<>>]
    /\ UNCHANGED <<services, enabled, sysUtcOffset, now, fsm, apiCycle, apiRun, planned,
                   capture, monthlyCall, loop>>

\* ------------------------------------------------------ payment capture flow

\* FSM states of the conversation (None, CalliiPayment.waiting_for_amount,
\* WazzupPayment.waiting_for_amount).
Idle == "Idle"
CalliiWaiting == "CalliiPayment:waiting_for_amount"
WazzupWaiting == "WazzupPayment:waiting_for_amount"
FsmStates == {Idle, CalliiWaiting, WazzupWaiting}

\* Amounts (in hundredths) of the message texts that match
\* ^\d+(\.\d{1,2})?$ in the model: "0", "1", "2.2", "6.6", "50", "400".
Amounts == {0, 100, 220, 660, 5000, 40000}

\* Argument pairs <<amount, daily_cost>>, among those of the model, at which the
\* IEEE-754 quotient amount / daily_cost is below the exact integer quotient
\* (6.6 / 2.2 = 2.9999999999999996).
QuotientRoundedBelow == {<<660, 220>>}

\* Mutant: the quotient is rounded up.
CoverageDays_RoundedUp(amount, daily_cost) ==
    (amount + daily_cost - 1) \div daily_cost

\* math.floor(amount / daily_cost) on Python floats.
CoverageDays(amount, daily_cost) ==
    IF <<amount, daily_cost>> \in QuotientRoundedBelow
    THEN (amount \div daily_cost) - 1
    ELSE amount \div daily_cost

\* Mutant: the time of day is not pinned.
NextAlertDatetime_NoPin(now_in_tz, days) == AddDays(now_in_tz, days)

\* (datetime.now(TIMEZONE) + timedelta(days=days)).replace(hour=10, minute=0,
\* second=0, microsecond=0)
NextAlertDatetime(now_in_tz, days) ==
    [AddDays(now_in_tz, days) EXCEPT !.hour = ALERT_HOUR, !.minute = ALERT_MINUTE]

\* Whether the select, the commit and the confirmation answer return or raise.
CaptureFaults == [load : BOOLEAN, commit : BOOLEAN]
NoCaptureFaults == [load |-> TRUE, commit |-> TRUE]

NoCapture ==
    [ handler |-> "none", service |-> "none", amount |-> 0, days |-> 0,
      reply |-> "none", fsm_before |-> Idle, date_before |-> NoDate,
      failed |-> FALSE, foreign |-> FALSE ]

\* Mutant: a failed load or commit leaves the FSM state as it was.
ProcessAmount_StateKeptOnError(name, daily_cost, amount, state, next_alert_date, now_in_tz, f) ==
    LET days == CoverageDays(amount, daily_cost)
    IN  IF days < 1
        THEN [reply |-> "too_small", days |-> days, fsm |-> state,
              next_alert_date |-> next_alert_date]
        ELSE IF ~f.load \/ ~f.commit
        THEN [reply |-> "error", days |-> days, fsm |-> state,
              next_alert_date |-> next_alert_date]
        ELSE [reply |-> "confirmed", days |-> days, fsm |-> Idle,
              next_alert_date |-> NextAlertDatetime(now_in_tz, days)]

\* process_callii_amount / process_wazzup_amount on a matching text, for the
\* service `name` with daily cost `daily_cost`: the reply, the FSM state and
\* the next_alert_date persisted.
ProcessAmount(name, daily_cost, amount, state, next_alert_date, now_in_tz, f) ==
    LET days == CoverageDays(amount, daily_cost)
    IN  IF days < 1
        THEN [reply |-> "too_small", days |-> days, fsm |-> state,
              next_alert_date |-> next_alert_date]
        ELSE IF ~f.load \/ ~f.commit
        THEN [reply |-> "error", days |-> days, fsm |-> Idle,
              next_alert_date |-> next_alert_date]
        ELSE [reply |-> "confirmed", days |-> days, fsm |-> Idle,
              next_alert_date |-> NextAlertDatetime(now_in_tz, days)]

\* Mutant: the Callii acknowledgement enters the Wazzup conversation.
ProcessCalliiPaid_OtherService ==
    /\ fsm' = WazzupWaiting
    /\ capture' = [NoCapture EXCEPT !.handler = "process_callii_paid",
                                    !.service = "Callii",
                                    !.reply = "prompt", !.fsm_before = fsm]
    /\ UNCHANGED <<services, enabled, sysUtcOffset, now, apiCycle, apiRun, planned,
                   monthlyCall, loop, tick>>

\* callback_query "callii_paid" from the target chat: process_callii_paid.
ProcessCalliiPaid ==
    /\ fsm' = CalliiWaiting
    /\ capture' = [NoCapture EXCEPT !.handler = "process_callii_paid",
                                    !.service = "Callii",
                                    !.reply = "prompt", !.fsm_before = fsm]
    /\ UNCHANGED <<services, enabled, sysUtcOffset, now, apiCycle, apiRun, planned,
                   monthlyCall, loop, tick>>

\* callback_query "wazzup_paid" from the target chat: process_wazzup_paid.
ProcessWazzupPaid ==
    /\ fsm' = WazzupWaiting
    /\ capture' = [NoCapture EXCEPT !.handler = "process_wazzup_paid",
                                    !.service = "Wazzup24 Balance",
                                    !.reply = "prompt", !.fsm_before = fsm]
    /\ UNCHANGED <<services, enabled, sysUtcOffset, now, apiCycle, apiRun, planned,
                   monthlyCall, loop, tick>>

\* Mutant: the new date is written to the Wazzup24 subscription row.
AmountMessage_OtherRow(handler, name, daily_cost, amount, f) ==
    LET r == ProcessAmount(name, daily_cost, amount, fsm,
                           services[name].next_alert_date, now, f)
    IN  /\ fsm' = r.fsm
        /\ services' = [services EXCEPT !["Wazzup24 Sub"].next_alert_date =
                                            r.next_alert_date]
        /\ capture' = [ handler |-> handler, service |-> name, amount |-> amount,
                        days |-> r.days, reply |-> r.reply,
                        fsm_before |-> fsm,
                        date_before |-> services[name].next_alert_date,
                        failed |-> r.days >= 1 /\ (~f.load \/ ~f.commit),
                        foreign |-> FALSE ]
        /\ UNCHANGED <<enabled, sysUtcOffset, now, apiCycle, apiRun, planned,
                       monthlyCall, loop, tick>>

AmountMessage(handler, name, daily_cost, amount, f) ==
    LET r == ProcessAmount(name, daily_cost, amount, fsm,
                           services[name].next_alert_date, now, f)
    IN  /\ fsm' = r.fsm
        /\ services' = [services EXCEPT ![name].next_alert_date = r.next_alert_date]
        /\ capture' = [ handler |-> handler, service |-> name, amount |-> amount,
                        days |-> r.days, reply |-> r.reply,
                        fsm_before |-> fsm,
                        date_before |-> services[name].next_alert_date,
                        failed |-> r.days >= 1 /\ (~f.load \/ ~f.commit),
                        foreign |-> FALSE ]
        /\ UNCHANGED <<enabled, sysUtcOffset, now, apiCycle, apiRun, planned,
                       monthlyCall, loop, tick>>

\* A message matching the numeric pattern while CalliiPayment.waiting_for_amount.
ProcessCalliiAmount ==
    /\ fsm = CalliiWaiting
    /\ \E amount \in Amounts :
           AmountMessage("process_callii_amount", "Callii", CALLII_DAILY_COST,
                         amount, NoCaptureFaults)

\* Mutant: the Wazzup amount handler is not restricted to its own FSM state.
ProcessWazzupAmount_AnyPending ==
    /\ fsm \in {CalliiWaiting, WazzupWaiting}
    /\ \E amount \in Amounts :
           AmountMessage("process_wazzup_amount", "Wazzup24 Balance",
                         WAZZUP_DAILY_COST, amount, NoCaptureFaults)

\* A message matching the numeric pattern while WazzupPayment.waiting_for_amount.
ProcessWazzupAmount ==
    /\ fsm = WazzupWaiting
    /\ \E amount \in Amounts :
           AmountMessage("process_wazzup_amount", "Wazzup24 Balance",
                         WAZZUP_DAILY_COST, amount, NoCaptureFaults)

\* Mutant: the format-error handler clears the FSM state.
ProcessAmountInvalid_Clears ==
    /\ fsm \in {CalliiWaiting, WazzupWaiting}
    /\ fsm' = Idle
    /\ capture' = [NoCapture EXCEPT
                       !.handler = IF fsm = CalliiWaiting
                                   THEN "process_callii_amount_invalid"
                                   ELSE "process_wazzup_amount_invalid",
                       !.reply = "format_error", !.fsm_before = fsm]
    /\ UNCHANGED <<services, enabled, sysUtcOffset, now, apiCycle, apiRun, planned,
                   monthlyCall, loop, tick>>

\* The same messages when the select (scalar_one) or the commit raises.
ProcessCalliiAmountFailing ==
    /\ fsm = CalliiWaiting
    /\ \E amount \in Amounts, f \in CaptureFaults \ {NoCaptureFaults} :
           AmountMessage("process_callii_amount", "Callii", CALLII_DAILY_COST,
                         amount, f)

ProcessWazzupAmountFailing ==
    /\ fsm = WazzupWaiting
    /\ \E amount \in Amounts, f \in CaptureFaults \ {NoCaptureFaults} :
           AmountMessage("process_wazzup_amount", "Wazzup24 Balance",
                         WAZZUP_DAILY_COST, amount, f)

\* Any other message while waiting for an amount: process_callii_amount_invalid
\* / process_wazzup_amount_invalid.
ProcessAmountInvalid ==
    /\ fsm \in {CalliiWaiting, WazzupWaiting}
    /\ capture' = [NoCapture EXCEPT
                       !.handler = IF fsm = CalliiWaiting
                                   THEN "process_callii_amount_invalid"
                                   ELSE "process_wazzup_amount_invalid",
                       !.reply = "format_error", !.fsm_before = fsm]
    /\ UNCHANGED <<services, enabled, sysUtcOffset, now, fsm, apiCycle, apiRun, planned,
                   monthlyCall, loop, tick>>

\* A "/start" command in any FSM state: command_start_handler, registered on
\* the dispatcher itself.  The dispatcher's own handlers are tried before those
\* of the included routers, so the command never reaches the routers' handlers.
CommandStart ==
    /\ capture' = [NoCapture EXCEPT !.handler = "command_start_handler",
                                    !.reply = "greeting", !.fsm_before = fsm]
    /\ UNCHANGED <<services, enabled, sysUtcOffset, now, fsm, apiCycle, apiRun, planned,
                   monthlyCall, loop, tick>>

\* ----------------------------------------------------------- TargetChatFilter

TargetChat == "TARGET_CHAT_ID"
\* Where an event that is not the operator's comes from: another chat, or no
\* chat at all (a callback query without its message).
OtherChats == {"other_chat", "no_chat"}
EventKinds == {"message", "callback_query"}

\* Mutant: every event is passed on.
TargetChatFilter_AllowsAll(kind, chat_id) == "handler"

\* TargetChatFilter.__call__ for an event whose filters matched a handler:
\* the handler is called for the target chat only; a message from elsewhere is
\* answered with the warning, any other event is dropped silently.
TargetChatFilter(kind, chat_id) ==
    IF chat_id = "no_chat" \/ chat_id /= TargetChat
    THEN IF kind = "message" THEN "warning" ELSE "ignored"
    ELSE "handler"

\* An event from outside the target chat that matches a handler: a command
\* ("/start", "/balance") or an acknowledgement callback.  Were it passed on,
\* the handler would run in the conversation of its own chat and user.
ForeignEvent ==
    /\ \E kind \in EventKinds, chat_id \in OtherChats :
           LET verdict == TargetChatFilter(kind, chat_id)
           IN  capture' = [NoCapture EXCEPT
                              !.handler = IF verdict /= "handler" THEN "TargetChatFilter"
                                          ELSE IF kind = "message"
                                          THEN "command_start_handler"
                                          ELSE "process_callii_paid",
                              !.reply = IF verdict /= "handler" THEN verdict
                                        ELSE IF kind = "message" THEN "greeting"
                                        ELSE "prompt",
                              !.fsm_before = fsm,
                              !.foreign = TRUE]
    /\ UNCHANGED <<services, enabled, sysUtcOffset, now, fsm, apiCycle, apiRun, planned,
                   monthlyCall, loop, tick>>

\* Mutant: the command stores a balance it fetched.
HandleBalanceCommand_StoresFetched ==
    /\ fsm = Idle
    /\ \E b \in Balances :
           services' = [services EXCEPT !["Zadarma"].last_balance = b]
    /\ capture' = [NoCapture EXCEPT !.handler = "handle_balance_command",
                                    !.reply = "balances", !.fsm_before = fsm]
    /\ UNCHANGED <<enabled, sysUtcOffset, now, fsm, apiCycle, apiRun, planned,
                   monthlyCall, loop, tick>>

\* A "/balance" command outside a capture conversation: handle_balance_command
\* asks the providers for the balances of the enabled API services, selects
\* the manual services and answers with the list; it assigns no attribute and
\* commits nothing.  (While an amount is awaited the routers of the capture
\* flows come first and the command is answered by their format-error
\* handlers.)
HandleBalanceCommand ==
    /\ fsm = Idle
    /\ capture' = [NoCapture EXCEPT !.handler = "handle_balance_command",
                                    !.reply = "balances", !.fsm_before = fsm]
    /\ UNCHANGED <<services, enabled, sysUtcOffset, now, fsm, apiCycle, apiRun, planned,
                   monthlyCall, loop, tick>>

\* ------------------------------------------------------------ scheduler_loop

\* Where the scheduler task is suspended: inside check_api_balances, in
\* asyncio.sleep(API_CHECK_INTERVAL), inside check_planned_alerts, in
\* asyncio.sleep(PLANNED_ALERT_CHECK_INTERVAL), in the asyncio.sleep(60) of the
\* "except Exception" branch; "done" once the coroutine has ended.
InBalances == "check_api_balances"
SleepApi == "sleep_api_check_interval"
InPlanned == "check_planned_alerts"
SleepPlanned == "sleep_planned_alert_check_interval"
Backoff == "sleep_after_error"
Done == "done"
LoopPositions == {InBalances, SleepApi, InPlanned, SleepPlanned, Backoff, Done}

\* The task as created by main(): about to run the first balance check; no
\* cancellation requested; `raised`: the last evaluation ended with an
\* exception; `recovered`: the current iteration follows an error pause;
\* `exit`: how the coroutine ended.
LoopStart ==
    [pc |-> InBalances, cancel_requested |-> FALSE, raised |-> FALSE,
     recovered |-> FALSE, exit |-> "none"]

\* Mutant: an exception escaping an evaluation ends the loop.
AfterEvaluation_ErrorEndsLoop(raised, then) == IF raised THEN Done ELSE then

\* The suspension point reached after an evaluation: the following sleep, or
\* the pause of the "except Exception" branch when the evaluation raised.
AfterEvaluation(raised, then) == IF raised THEN Backoff ELSE then

\* Mutant: a cancellation delivered in the error pause is swallowed and the
\* loop goes on.
AfterCancellation_PauseSwallows(pc) == IF pc = Backoff THEN InBalances ELSE Done

\* The position after CancelledError is thrown at the current suspension
\* point: inside the try block it is caught by "except asyncio.CancelledError"
\* (break); inside the error pause it propagates out of the coroutine.
AfterCancellation(pc) == Done

\* The faults of check_planned_alerts considered in the loop: none, or every
\* send raising.
LoopPlannedFaults ==
    { NoPlannedFaults,
      [send |-> [n \in ServiceNames |-> FALSE], commit |-> [n \in ServiceNames |-> TRUE]] }

\* check_api_balances returns, or an exception escapes it (raised by
\* session.rollback() in its except branch or by the session's exit).
FinishApiBalances ==
    /\ loop.pc = InBalances /\ ~loop.cancel_requested
    /\ \E resp \in RecordsResponses :
           CheckApiBalancesWith(resp, [n \in ApiNames |-> NoFaults])
    /\ \E escaped \in BOOLEAN :
           loop' = [loop EXCEPT !.pc = AfterEvaluation(escaped, SleepApi),
                                !.raised = escaped]

\* asyncio.sleep(API_CHECK_INTERVAL) returns: check_planned_alerts starts.
WakeFromApiSleep ==
    /\ loop.pc = SleepApi /\ ~loop.cancel_requested
    /\ loop' = [loop EXCEPT !.pc = InPlanned, !.raised = FALSE]
    /\ UNCHANGED <<services, enabled, sysUtcOffset, now, fsm, apiCycle, apiRun, planned,
                   capture, monthlyCall, tick>>

\* check_planned_alerts returns or raises (it catches nothing itself).
FinishPlannedAlerts ==
    /\ loop.pc = InPlanned /\ ~loop.cancel_requested
    /\ \E f \in LoopPlannedFaults :
           /\ CheckPlannedAlertsWith(f)
           /\ loop' = [loop EXCEPT
                          !.pc = AfterEvaluation(
                                     PlannedAlerts(services, now, sysUtcOffset, f).raised,
                                     SleepPlanned),
                          !.raised = PlannedAlerts(services, now, sysUtcOffset, f).raised]

\* asyncio.sleep(PLANNED_ALERT_CHECK_INTERVAL) returns: the next iteration of
\* "while True" starts with check_api_balances.
WakeFromPlannedSleep ==
    /\ loop.pc = SleepPlanned /\ ~loop.cancel_requested
    /\ loop' = [loop EXCEPT !.pc = InBalances, !.raised = FALSE, !.recovered = FALSE]
    /\ UNCHANGED <<services, enabled, sysUtcOffset, now, fsm, apiCycle, apiRun, planned,
                   capture, monthlyCall, tick>>

\* Mutant: after the error pause the loop goes on with the due-date
\* evaluation instead of starting the next iteration.
WakeFromBackoff_ResumesPhase ==
    /\ loop.pc = Backoff /\ ~loop.cancel_requested
    /\ loop' = [loop EXCEPT !.pc = InPlanned, !.raised = FALSE, !.recovered = TRUE]
    /\ UNCHANGED <<services, enabled, sysUtcOffset, now, fsm, apiCycle, apiRun, planned,
                   capture, monthlyCall, tick>>

\* asyncio.sleep(60) of the except branch returns: the next iteration starts.
WakeFromBackoff ==
    /\ loop.pc = Backoff /\ ~loop.cancel_requested
    /\ loop' = [loop EXCEPT !.pc = InBalances, !.raised = FALSE, !.recovered = TRUE]
    /\ UNCHANGED <<services, enabled, sysUtcOffset, now, fsm, apiCycle, apiRun, planned,
                   capture, monthlyCall, tick>>

\* main()'s finally: scheduler_task.cancel().
CancelScheduler ==
    /\ loop.pc /= Done /\ ~loop.cancel_requested
    /\ loop' = [loop EXCEPT !.cancel_requested = TRUE]
    /\ UNCHANGED <<services, enabled, sysUtcOffset, now, fsm, apiCycle, apiRun, planned,
                   capture, monthlyCall, tick>>

\* What an evaluation interrupted by CancelledError has persisted: the
\* services it had committed before the await at which it was suspended (the
\* session is closed without a commit of the rest).
InterruptedApiBalances ==
    \E resp \in RecordsResponses, k \in 0..Len(API_CLIENTS) :
        LET reached == {API_CLIENTS[i] : i \in 1..k}
            it(n) == ApiIteration(n, services[n], enabled[n], resp[n], NoFaults)
        IN  /\ services' = [n \in ServiceNames |->
                                IF n \in reached THEN it(n).service ELSE services[n]]
            /\ apiCycle' = [n \in ApiNames |->
                                IF n \in reached THEN it(n).cycle ELSE apiCycle[n]]
            /\ apiRun' = [n \in ApiNames |->
                              IF n \in reached THEN RunAfter(apiRun[n], it(n).cycle)
                              ELSE apiRun[n]]
            /\ UNCHANGED planned

InterruptedPlannedAlerts ==
    \E at \in ServiceNames :
        LET f == [send |-> [n \in ServiceNames |-> n /= at],
                  commit |-> [n \in ServiceNames |-> TRUE]]
        IN  /\ services' = PlannedAlerts(services, now, sysUtcOffset, f).services
            /\ planned' = NoPlanned
            /\ UNCHANGED <<apiCycle, apiRun>>

\* The task is resumed after cancel(): CancelledError is thrown at the point
\* where it is suspended.
DeliverCancellation ==
    /\ loop.pc /= Done /\ loop.cancel_requested
    /\ loop' = [loop EXCEPT !.pc = AfterCancellation(loop.pc),
                            !.raised = FALSE,
                            !.exit = IF loop.pc = Backoff THEN "propagated" ELSE "break"]
    /\ CASE loop.pc = InBalances -> InterruptedApiBalances
         [] loop.pc = InPlanned  -> InterruptedPlannedAlerts
         [] OTHER -> UNCHANGED <<services, apiCycle, apiRun, planned>>
    /\ UNCHANGED <<enabled, sysUtcOffset, now, fsm, capture, monthlyCall, tick>>

\* A step of the scheduler task.
LoopResume ==
    \/ FinishApiBalances
    \/ WakeFromApiSleep
    \/ FinishPlannedAlerts
    \/ WakeFromPlannedSleep
    \/ WakeFromBackoff
    \/ DeliverCancellation

\* ------------------------------------------------------------------- clock

\* First month of the clock: the month of the seeded due dates.
START_YEAR == 2025
START_MONTH == 12
\* Number of months, from the first, the clock runs over.
MaxMonths == 3

\* <<day, hour>> of the instants at which something may run, in each month.
ClockInstants == {<<10, 10>>, <<11, 9>>, <<11, 10>>, <<11, 19>>, <<12, 3>>,
                  <<20, 10>>, <<21, 3>>}

ClockPoints ==
    { Dt(START_YEAR + ((START_MONTH - 1 + k) \div 12), ((START_MONTH - 1 + k) % 12) + 1,
         i[1], i[2], 0) : k \in 0..(MaxMonths - 1), i \in ClockInstants }

\* Time passes; `planned` and `capture` describe what ran at the current
\* instant, so they are cleared.
AdvanceClock ==
    /\ \E p \in ClockPoints : DtKey(p) > DtKey(now) /\ now' = p
    /\ planned' = NoPlanned
    /\ capture' = NoCapture
    /\ UNCHANGED <<services, enabled, sysUtcOffset, fsm, apiCycle, apiRun, monthlyCall, loop, tick>>

\* ------------------------------------------------- _next_monthly_datetime

\* Arguments of the calls explored for the function on its own.
InputYears == {2025, 2026, 2027, 2028}
InputHours == {0, 23}
InputDates ==
    { Dt(y, m, d, h, 0) : y \in InputYears, m \in 1..12, d \in 1..31, h \in InputHours }
        \ { dt \in [year : InputYears, month : 1..12, day : 29..31,
                    hour : InputHours, minute : {0}] :
                dt.day > DaysInMonth(dt.year, dt.month) }
TargetDays == 1..31

NoCall == [called |-> FALSE, current_date |-> NoDate, target_day |-> 0, result |-> NoDate]

\* One call of _next_monthly_datetime on the arguments drawn by the initial state.
CallNextMonthlyDatetime ==
    /\ ~monthlyCall.called
    /\ monthlyCall.current_date /= NoDate
    /\ monthlyCall' = [monthlyCall EXCEPT
                          !.called = TRUE,
                          !.result = NextMonthlyDatetime(monthlyCall.current_date,
                                                         monthlyCall.target_day)]
    /\ UNCHANGED <<services, enabled, sysUtcOffset, now, fsm, apiCycle, apiRun, planned,
                   capture, loop, tick>>

\* ------------------------------------------------------------ initial state

\* System time zones of the host considered: TIMEZONE itself, UTC, UTC-8.
SysUtcOffsets == {8, 0, -8}

\* The table after initialize_services on an empty store (column defaults:
\* last_balance 0.0, low_balance_alert_sent False, dates NULL).
SeedRow(next_alert_date, next_monthly_alert) ==
    [ last_balance |-> 0, low_balance_alert_sent |-> FALSE,
      next_alert_date |-> next_alert_date, next_monthly_alert |-> next_monthly_alert ]

Seeded ==
    [ n \in ServiceNames |->
        CASE n = "Zadarma"          -> SeedRow(NoDate, NoDate)
          [] n = "Wazzup24 Sub"     -> SeedRow(NoDate, Dt(2025, 12, 11, 10, 0))
          [] n = "Wazzup24 Balance" -> SeedRow(Dt(2025, 12, 11, 10, 0), NoDate)
          [] n = "DIDWW"            -> SeedRow(NoDate, Dt(2025, 12, 20, 10, 0))
          [] n = "Callii"           -> SeedRow(Dt(2025, 12, 11, 10, 0), NoDate)
          [] n = "Streamtele"       -> SeedRow(NoDate, Dt(2025, 12, 11, 10, 0)) ]

\* --------------------------------------------------------------- restart

\* initialize_services on the table svc: a catalog row is added only when no
\* row of that name exists; existing rows are left as they are.
\* Mutant: the catalog rows are written again over the stored ones.
InitializeServices_Overwrite(svc) == Seeded

InitializeServices(svc) ==
    [n \in ServiceNames |-> IF n \in DOMAIN svc THEN svc[n] ELSE Seeded[n]]

\* The process is stopped and main() runs again on the same store: the catalog
\* is re-seeded and the FSM storage (MemoryStorage) starts empty.
Restart ==
    /\ services' = InitializeServices(services)
    /\ fsm' = Idle
    /\ apiCycle' = [n \in ApiNames |-> NoCycle]
    /\ planned' = NoPlanned
    /\ capture' = NoCapture
    /\ loop' = LoopStart
    /\ tick' = NoTick
    /\ UNCHANGED <<enabled, sysUtcOffset, now, apiRun, monthlyCall>>

AllEnabled == [n \in ApiNames |-> TRUE]

\* The state once main() has seeded the store and started the scheduler: the
\* conversation is idle and nothing has run yet.
InitProgram ==
    /\ services = Seeded
    /\ now = Dt(START_YEAR, START_MONTH, 10, 10, 0)
    /\ fsm = Idle
    /\ apiCycle = [n \in ApiNames |-> NoCycle]
    /\ apiRun = [n \in ApiNames |-> NoRun]
    /\ planned = NoPlanned
    /\ capture = NoCapture
    /\ loop = LoopStart
    /\ tick = NoTick

Init ==
    /\ InitProgram
    /\ enabled \in [ApiNames -> BOOLEAN]
    /\ sysUtcOffset \in SysUtcOffsets
    /\ monthlyCall = NoCall

Next ==
    \/ CheckApiBalances
    \/ CheckPlannedAlerts
    \/ AdvanceClock
    \/ ProcessCalliiPaid
    \/ ProcessWazzupPaid
    \/ ProcessCalliiAmount
    \/ ProcessWazzupAmount
    \/ ProcessAmountInvalid
    \/ CommandStart
    \/ HandleBalanceCommand
    \/ ForeignEvent
    \/ ProcessCalliiAmountFailing
    \/ ProcessWazzupAmountFailing
    \/ Restart

\* The whole program.
Spec == Init /\ [][Next]_vars

\* Balance polling alone, under every setting of the config switches.
InitBalance ==
    /\ InitProgram
    /\ enabled \in [ApiNames -> BOOLEAN]
    /\ sysUtcOffset = TIMEZONE
    /\ monthlyCall = NoCall
NextBalance == CheckApiBalances
SpecBalance == InitBalance /\ [][NextBalance]_vars

\* The calendar scheduler and the clock, under every system time zone.
InitCalendar ==
    /\ InitProgram
    /\ enabled = AllEnabled
    /\ sysUtcOffset \in SysUtcOffsets
    /\ monthlyCall = NoCall
NextCalendar == CheckPlannedAlerts \/ AdvanceClock
SpecCalendar == InitCalendar /\ [][NextCalendar]_vars

\* The calendar scheduler and the clock when a send or a commit may raise.
NextCalendarFaults == CheckPlannedAlerts \/ CheckPlannedAlertsFaulty \/ AdvanceClock
SpecCalendarFaults == InitCalendar /\ [][NextCalendarFaults]_vars

\* The payment capture conversation and the clock.
InitCapture ==
    /\ InitProgram
    /\ enabled = AllEnabled
    /\ sysUtcOffset = TIMEZONE
    /\ monthlyCall = NoCall
NextCapture ==
    \/ AdvanceClock
    \/ ProcessCalliiPaid
    \/ ProcessWazzupPaid
    \/ ProcessCalliiAmount
    \/ ProcessWazzupAmount
    \/ ProcessAmountInvalid
    \/ CommandStart
    \/ ForeignEvent
SpecCapture == InitCapture /\ [][NextCapture]_vars

\* Balance polling when a send or a commit may raise.
NextBalanceFaults == CheckApiBalancesFaulty
SpecBalanceFaults == InitCapture /\ [][NextBalanceFaults]_vars

\* The payment capture conversation when the store may fail.
NextCaptureFaults ==
    \/ NextCapture
    \/ ProcessCalliiAmountFailing
    \/ ProcessWazzupAmountFailing
SpecCaptureFaults == InitCapture /\ [][NextCaptureFaults]_vars

\* Every operation that runs on the store, on a reduced set of inputs: both
\* providers report 20.0 or both fail, the operator enters "1", "50" or "400",
\* and the clock stops at the 10:00 instants of the first month.
RecordsAmounts == {100, 5000, 40000}

NextRecords ==
    \/ /\ \E resp \in RecordsResponses :
              CheckApiBalancesWith(resp, [n \in ApiNames |-> NoFaults])
       /\ UNCHANGED loop
    \/ CheckPlannedAlerts
    \/ AdvanceClock /\ now'.hour = ALERT_HOUR /\ now'.month = START_MONTH
    \/ ProcessCalliiPaid
    \/ ProcessWazzupPaid
    \/ /\ fsm = CalliiWaiting
       /\ \E amount \in RecordsAmounts, f \in CaptureFaults :
              AmountMessage("process_callii_amount", "Callii", CALLII_DAILY_COST,
                            amount, f)
    \/ /\ fsm = WazzupWaiting
       /\ \E amount \in RecordsAmounts, f \in CaptureFaults :
              AmountMessage("process_wazzup_amount", "Wazzup24 Balance",
                            WAZZUP_DAILY_COST, amount, f)
    \/ ProcessAmountInvalid
    \/ CommandStart
    \/ HandleBalanceCommand
    \/ Restart
SpecRecords == InitCapture /\ [][NextRecords]_vars

\* A step of the scheduler task as seen on `loop` alone: every step of
\* LoopResume moves the task to another suspension point, and one is possible
\* wherever the task has not ended.
ResumeTask ==
    /\ loop.pc /= Done
    /\ loop' \in [pc : LoopPositions, cancel_requested : BOOLEAN, raised : BOOLEAN,
                  recovered : BOOLEAN, exit : {"none", "break", "propagated"}]
    /\ loop'.pc /= loop.pc

\* The scheduler task, the clock at the 10:00 instants, and the shutdown.  The
\* event loop resumes the task whenever it can run: sleeps end, and every
\* awaited call returns or raises.
NextLoop ==
    \/ LoopResume
    \/ CancelScheduler
    \/ AdvanceClock /\ now'.hour = ALERT_HOUR
SpecLoop == InitCapture /\ [][NextLoop]_vars /\ WF_loop(ResumeTask)

\* A check_planned_alerts call, suspended at each of its awaits, and the
\* capture handlers, which the event loop runs while the call is suspended.
\* The clock moves between calls.
NextRace ==
    \/ TickSelectDaily
    \/ TickDailyIteration
    \/ TickSelectMonthly
    \/ TickMonthlyIteration
    \/ TickReturn
    \/ ProcessCalliiPaid
    \/ ProcessWazzupPaid
    \/ /\ fsm = CalliiWaiting
       /\ \E amount \in RecordsAmounts :
              AmountMessage("process_callii_amount", "Callii", CALLII_DAILY_COST,
                            amount, NoCaptureFaults)
    \/ /\ fsm = WazzupWaiting
       /\ \E amount \in RecordsAmounts :
              AmountMessage("process_wazzup_amount", "Wazzup24 Balance",
                            WAZZUP_DAILY_COST, amount, NoCaptureFaults)
    \/ /\ tick.phase = "idle"
       /\ AdvanceClock /\ now'.hour = ALERT_HOUR /\ now'.month = START_MONTH
SpecRace == InitCapture /\ [][NextRace]_vars

\* _next_monthly_datetime on its own, on every argument of the bounded sets.
InitMonthly ==
    /\ InitProgram
    /\ enabled = AllEnabled
    /\ sysUtcOffset = TIMEZONE
    /\ monthlyCall \in [called : {FALSE}, current_date : InputDates,
                        target_day : TargetDays, result : {NoDate}]
NextMonthly == CallNextMonthlyDatetime
SpecMonthly == InitMonthly /\ [][NextMonthly]_vars

\* ===================================================================== claims
\* Balance transition classifier, checked under SpecBalance.

Classified(n) == apiCycle[n].status = "committed"

\* C1 (as stated): over successful fetches, at most one low-balance
\* notification is emitted per maximal run of consecutive fetches below
\* LOW_BALANCE_THRESHOLD, also when a top-up is detected within the run.
C1_AtMostOneLowPerRun ==
    \A n \in ApiNames : ~apiRun[n].failed_fetch => apiRun[n].lows <= 1

\* C1 (amended): in a maximal run of consecutive classified balances below
\* LOW_BALANCE_THRESHOLD, the low-balance notifications number at most one
\* plus the top-ups detected in the run while the latch was set: each such
\* top-up clears the latch and the notification is emitted again.
C1_AtMostOneLowPerRunAndRearm ==
    \A n \in ApiNames : apiRun[n].lows <= 1 + apiRun[n].rearms

\* A second low-balance notification in one run, after a top-up detected below
\* the threshold, all fetches successful.
C1_Witness ==
    \E n \in ApiNames :
        /\ ~apiRun[n].failed_fetch
        /\ apiRun[n].lows = 2 /\ apiRun[n].rearms = 1
        /\ apiCycle[n].topup_sent /\ apiCycle[n].low_sent
        /\ apiCycle[n].fetched < LOW_BALANCE_THRESHOLD

\* C2: after every successful classification the latch is true iff the balance
\* just fetched is below LOW_BALANCE_THRESHOLD; a fetch below the threshold
\* that finds the latch false emits a low-balance notification.
C2_LatchIffBelowThreshold ==
    \A n \in ApiNames :
        Classified(n) =>
            /\ services[n].low_balance_alert_sent
                   <=> (apiCycle[n].fetched < LOW_BALANCE_THRESHOLD)
            /\ services[n].last_balance = apiCycle[n].fetched
            /\ (~apiCycle[n].prev_latch /\ apiCycle[n].fetched < LOW_BALANCE_THRESHOLD)
                   => apiCycle[n].low_sent

\* A fetch at or above the threshold, without a top-up, that clears a set latch.
C2_Witness ==
    \E n \in ApiNames :
        /\ Classified(n)
        /\ apiCycle[n].prev_latch /\ ~apiCycle[n].topup_sent
        /\ apiCycle[n].fetched >= LOW_BALANCE_THRESHOLD
        /\ ~services[n].low_balance_alert_sent

\* C3: when the balance fetch of an API service fails, no notification is
\* emitted for it and its record is unchanged in that cycle.
C3_FailedFetchChangesNothing ==
    \A n \in ApiNames :
        apiCycle[n].response \in {"api_error", "exception"} =>
            /\ ~apiCycle[n].topup_sent /\ ~apiCycle[n].low_sent
            /\ services[n].last_balance = apiCycle[n].prev_balance
            /\ services[n].low_balance_alert_sent = apiCycle[n].prev_latch

\* C4: a top-up notification is emitted in a cycle iff fetched - last_balance
\* is strictly greater than MIN_TOP_UP_AMOUNT; the low-balance check runs in
\* the same cycle (previous 3.0, fetched 20.0: top-up, no low-balance
\* notification, latch false).
C4_TopUpIffStrictlyGreater ==
    \A n \in ApiNames :
        Classified(n) =>
            /\ apiCycle[n].topup_sent
                   <=> (apiCycle[n].fetched - apiCycle[n].prev_balance > MIN_TOP_UP_AMOUNT)
            /\ (apiCycle[n].prev_balance = 300 /\ apiCycle[n].fetched = 2000)
                   => /\ apiCycle[n].topup_sent
                      /\ ~apiCycle[n].low_sent
                      /\ ~services[n].low_balance_alert_sent

\* Previous balance 3.0, fetched 20.0.
C4_Witness ==
    \E n \in ApiNames :
        /\ Classified(n)
        /\ apiCycle[n].prev_balance = 300 /\ apiCycle[n].fetched = 2000
        /\ apiCycle[n].topup_sent

\* -------------------------------------------------------------------------
\* Calendar alert scheduler, checked under SpecCalendar.

\* The due date of a stored value as the scheduler reads it: a local time.
LocalDue(stored) == AsTimezone(stored, sysUtcOffset)

MonthIndex(dt) == dt.year * 12 + dt.month - 1

\* The same day and time of the following calendar month (day <= 28).
PlusOneMonth(dt) ==
    IF dt.month = 12 THEN [dt EXCEPT !.year = dt.year + 1, !.month = 1]
    ELSE [dt EXCEPT !.month = dt.month + 1]

FiredMonthly == planned.reminded \cap MonthlyNames

C6_AdvancedPastTick ==
    planned.ran =>
        \A n \in FiredMonthly :
            DtKey(LocalDue(services[n].next_monthly_alert)) > DtKey(now)

\* C6 (amended): after a monthly reminder fires, the new next_monthly_alert
\* is strictly later than the stored one; it is later than the time of the
\* tick, so that the service is not due again at that time, exactly when the
\* tick comes less than one calendar month after the stored due date.
C6_AdvancedPastStoredDate ==
    planned.ran =>
        \A n \in FiredMonthly :
            LET due == LocalDue(planned.before[n].next_monthly_alert)
                new == services[n].next_monthly_alert
            IN  /\ DtKey(new) > DtKey(planned.before[n].next_monthly_alert)
                /\ DtKey(LocalDue(new)) > DtKey(now)
                       <=> DtKey(now) < DtKey(PlusOneMonth(due))

\* A monthly reminder fired on time: the new date is later than the tick.
C6_Witness ==
    /\ planned.ran
    /\ "Streamtele" \in planned.reminded
    /\ MonthIndex(now) = MonthIndex(LocalDue(planned.before["Streamtele"].next_monthly_alert))
    /\ DtKey(LocalDue(services["Streamtele"].next_monthly_alert)) > DtKey(now)

\* C7: _next_monthly_datetime(d, target_day) is, in the calendar month
\* following d's month (December rolls to January of year + 1), the day
\* min(target_day, days in that month) at 10:00.
C7_NextMonthClamped ==
    monthlyCall.called =>
        LET d == monthlyCall.current_date
            t == monthlyCall.target_day
            r == monthlyCall.result
        IN  /\ MonthIndex(r) = MonthIndex(d) + 1
            /\ r.month \in 1..12
            /\ r.day = Min(t, DaysInMonth(r.year, r.month))
            /\ r.hour = 10 /\ r.minute = 0
            /\ (t = 31 /\ r.month \in {4, 6, 9, 11}) => r.day = 30
            /\ (d.month = 12 /\ d.day = 11 /\ t = 11)
                   => r = Dt(d.year + 1, 1, 11, 10, 0)

\* Target day 31 followed by a 30-day month.
C7_Witness ==
    /\ monthlyCall.called
    /\ monthlyCall.target_day = 31
    /\ monthlyCall.result.day = 30

\* The fixed target day of each monthly service.
FixedTargetDay(n) == IF n = "DIDWW" THEN 20 ELSE 11

\* C8: each fire of a monthly service moves next_monthly_alert forward by
\* exactly one calendar month, and the stored date stays on the service's
\* target day (11 for Streamtele and the Wazzup24 subscription, 20 for
\* DIDWW) at 10:00; a tick changes no other monthly date.
C8_OneMonthPerFireNoDrift ==
    \A n \in MonthlyNames :
        /\ services[n].next_monthly_alert.day = FixedTargetDay(n)
        /\ services[n].next_monthly_alert.hour = 10
        /\ services[n].next_monthly_alert.minute = 0
        /\ planned.ran =>
               IF n \in planned.reminded
               THEN MonthIndex(services[n].next_monthly_alert)
                        = MonthIndex(planned.before[n].next_monthly_alert) + 1
               ELSE services[n].next_monthly_alert = planned.before[n].next_monthly_alert

\* A fire of a due date missed by more than a month: it moves one month only.
C8_Witness ==
    /\ planned.ran
    /\ "DIDWW" \in planned.reminded
    /\ MonthIndex(now) > MonthIndex(planned.before["DIDWW"].next_monthly_alert) + 1
    /\ services["DIDWW"].next_monthly_alert.day = 20

UnchangedByTick(n) ==
    /\ n \notin planned.reminded
    /\ services[n].next_alert_date = planned.before[n].next_alert_date
    /\ services[n].next_monthly_alert = planned.before[n].next_monthly_alert

WaitingStateOf(n) == IF n = "Callii" THEN CalliiWaiting ELSE WazzupWaiting
DailyCostOf(n) == IF n = "Callii" THEN CALLII_DAILY_COST ELSE WAZZUP_DAILY_COST

\* C10: in AwaitingAmount, a matching message whose amount covers at least one
\* day sets the service's next_alert_date to today + coverageDays days at
\* 10:00, persists it, confirms, and returns the conversation to Idle
\* (daily cost 2.2 and "50" give 22 days).
C10_CaptureSetsDueDate ==
    (capture.handler \in {"process_callii_amount", "process_wazzup_amount"}
        /\ capture.days >= 1) =>
        /\ capture.fsm_before = WaitingStateOf(capture.service)
        /\ capture.days * DailyCostOf(capture.service) <= capture.amount
        /\ (capture.service = "Callii" /\ capture.amount = 5000) => capture.days = 22
        /\ capture.reply = "confirmed"
        /\ fsm = Idle
        /\ services[capture.service].next_alert_date =
               [AddDays(now, capture.days) EXCEPT !.hour = 10, !.minute = 0]

\* "50" for Callii on a day whose 22nd successor is in the next year.
C10_Witness ==
    /\ capture.handler = "process_callii_amount"
    /\ capture.amount = 5000 /\ capture.days = 22
    /\ capture.reply = "confirmed"
    /\ now.hour /= 10
    /\ services["Callii"].next_alert_date.year = now.year + 1

\* C11: in AwaitingAmount, a matching message whose amount is smaller than the
\* service's daily cost ("0" included) has coverageDays = 0 and is rejected
\* with the insufficient-amount message: the conversation stays in
\* AwaitingAmount and next_alert_date is unchanged.
C11_TooSmallRejected ==
    (capture.handler \in {"process_callii_amount", "process_wazzup_amount"}
        /\ capture.amount < DailyCostOf(capture.service)) =>
        /\ capture.days = 0
        /\ capture.reply = "too_small"
        /\ capture.fsm_before = WaitingStateOf(capture.service)
        /\ fsm = capture.fsm_before
        /\ services[capture.service].next_alert_date = capture.date_before

\* "1" for Callii (daily cost 2.2), after an earlier capture moved the date.
C11_Witness ==
    /\ capture.handler = "process_callii_amount"
    /\ capture.amount = 100
    /\ capture.reply = "too_small"
    /\ fsm = CalliiWaiting
    /\ services["Callii"].next_alert_date /= Seeded["Callii"].next_alert_date

\* Handlers that receive the messages failing the numeric pattern.
NonNumericHandlers ==
    {"process_callii_amount_invalid", "process_wazzup_amount_invalid",
     "command_start_handler"}

\* A message failing the numeric pattern is handled in AwaitingAmount.
NonNumericWhileWaiting ==
    /\ fsm \in {CalliiWaiting, WazzupWaiting}
    /\ capture' /= capture
    /\ capture'.handler \in NonNumericHandlers

\* C12 (as stated): in AwaitingAmount, every message that fails the numeric
\* pattern is answered with the format-error reply, leaves the conversation in
\* AwaitingAmount and leaves every service record unchanged.
C12_NonNumericGetsFormatError ==
    [][NonNumericWhileWaiting =>
          /\ capture'.reply = "format_error"
          /\ fsm' = fsm
          /\ services' = services]_vars

\* C12 (amended): in AwaitingAmount, a message that fails the numeric pattern
\* leaves the conversation in AwaitingAmount and every service record
\* unchanged, however many arrive in a row; it is answered with the
\* format-error reply unless it is the /start command, which the dispatcher's
\* own handler answers with the greeting.
C12_NonNumericKeepsWaiting ==
    [][NonNumericWhileWaiting =>
          /\ fsm' = fsm
          /\ services' = services
          /\ capture'.fsm_before = fsm
          /\ capture'.reply = IF capture'.handler = "command_start_handler"
                              THEN "greeting" ELSE "format_error"]_vars

\* A format-error reply while waiting for the Wazzup amount, the state kept.
C12_Witness ==
    /\ capture.handler = "process_wazzup_amount_invalid"
    /\ capture.reply = "format_error"
    /\ capture.fsm_before = WazzupWaiting
    /\ fsm = WazzupWaiting

\* C13: when loading or committing the record fails while a valid amount is
\* being processed in AwaitingAmount, the error is reported to the operator
\* and the conversation is Idle afterwards, never AwaitingAmount; nothing was
\* persisted.
C13_StoreFailureForcesIdle ==
    capture.failed =>
        /\ capture.fsm_before = WaitingStateOf(capture.service)
        /\ capture.days >= 1
        /\ capture.reply = "error"
        /\ fsm = Idle
        /\ services[capture.service].next_alert_date = capture.date_before

\* A failure on "400" for Wazzup after the due date had been moved.
C13_Witness ==
    /\ capture.failed
    /\ capture.handler = "process_wazzup_amount"
    /\ capture.amount = 40000
    /\ capture.reply = "error"
    /\ fsm = Idle
    /\ capture.date_before /= Seeded["Wazzup24 Balance"].next_alert_date

AcknowledgementHandlers == {"process_callii_paid", "process_wazzup_paid"}

\* An acknowledgement callback is handled in this step.
Acknowledged ==
    /\ capture'.handler \in AcknowledgementHandlers
    /\ capture' /= capture \/ fsm' /= fsm

\* C14: an acknowledgement ("callii_paid" / "wazzup_paid") moves the
\* conversation to AwaitingAmount of the corresponding service and emits the
\* amount prompt without changing any service record, and AwaitingAmount is
\* entered by no other step.
C14_AcknowledgementEntersAwaitingAmount ==
    [][/\ Acknowledged =>
            /\ capture'.service =
                   (IF capture'.handler = "process_callii_paid"
                    THEN "Callii" ELSE "Wazzup24 Balance")
            /\ fsm' = WaitingStateOf(capture'.service)
            /\ capture'.reply = "prompt"
            /\ services' = services
       /\ (fsm' \in {CalliiWaiting, WazzupWaiting} /\ fsm' /= fsm) => Acknowledged
      ]_vars

\* "wazzup_paid" received while the Callii amount was awaited.
C14_Witness ==
    /\ capture.handler = "process_wazzup_paid"
    /\ capture.fsm_before = CalliiWaiting
    /\ capture.reply = "prompt"
    /\ fsm = WazzupWaiting

\* -------------------------------------------------------------------------
\* The services table, checked under SpecRecords.

\* C15: no service record has both next_alert_date and next_monthly_alert
\* present, in the seeded catalog and after every operation (balance
\* classification, calendar evaluation, payment capture, re-seeding).
C15_NeverBothDueDates ==
    \A n \in ServiceNames :
        ~(services[n].next_alert_date /= NoDate /\ services[n].next_monthly_alert /= NoDate)

\* After a restart: a captured daily date, an advanced monthly date and a
\* polled balance, each with the other date still absent.
C15_Witness ==
    /\ fsm = Idle /\ capture = NoCapture /\ planned = NoPlanned
    /\ apiCycle["DIDWW"] = NoCycle
    /\ services["Callii"].next_alert_date /= Seeded["Callii"].next_alert_date
    /\ services["Callii"].next_monthly_alert = NoDate
    /\ services["DIDWW"].next_monthly_alert /= Seeded["DIDWW"].next_monthly_alert
    /\ services["DIDWW"].next_alert_date = NoDate
    /\ services["DIDWW"].last_balance = 2000
    /\ now = Dt(START_YEAR, START_MONTH, 20, 10, 0)

\* -------------------------------------------------------------------------
\* The scheduler loop, checked under SpecLoop.

\* C16: an exception escaping the balance phase or the calendar phase is
\* caught by the loop, which pauses (60 seconds) and then starts another
\* iteration; the loop ends for no reason other than cancellation.
C16_ErrorPausesThenNextIteration ==
    /\ [][/\ loop'.raised => loop'.pc = Backoff
          /\ (loop.pc = Backoff /\ loop'.pc /= Backoff)
                 => \/ loop'.pc = InBalances /\ loop'.recovered
                    \/ loop.cancel_requested
          /\ (loop.pc /= Done /\ loop'.pc = Done) => loop.cancel_requested]_vars
    /\ [](loop.pc = Backoff => <>(loop.pc = InBalances \/ loop.cancel_requested))

\* A new iteration running after the pause that followed a failed calendar
\* phase: the loop is inside check_api_balances again.
C16_Witness ==
    /\ loop.pc = InBalances
    /\ loop.recovered
    /\ planned.raised
    /\ ~loop.cancel_requested

\* C17: once the scheduler task is cancelled, the loop eventually stops,
\* wherever it is suspended (a sleep between evaluations, an evaluation, the
\* error pause), and starts no further evaluation.
C17_CancellationStopsLoop ==
    /\ [](loop.cancel_requested => <>(loop.pc = Done))
    /\ [][loop.cancel_requested => loop'.pc \in {loop.pc, Done}]_vars
    /\ [][loop.pc = Done => loop'.pc = Done]_vars

\* Cancelled while in the error pause: the coroutine has ended.
C17_Witness ==
    /\ loop.pc = Done
    /\ loop.cancel_requested
    /\ loop.exit = "propagated"

\* C20: as long as the loop is not cancelled, check_planned_alerts is run
\* again and again whether or not the balance phase fails, and
\* check_api_balances is run again and again whether or not the calendar
\* phase fails.
C20_IndependentCadences ==
    \/ <>loop.cancel_requested
    \/ /\ []<>(loop.pc = InPlanned)
       /\ []<>(loop.pc = InBalances)

\* -------------------------------------------------------------------------
\* Failures inside a tick, checked under SpecBalanceFaults and
\* SpecCalendarFaults.

Processed(n) == apiCycle[n].status \in {"committed", "rolled_back", "unavailable"}

\* C18: when the processing of one API service raises in check_api_balances
\* (a send or the commit fails), its persisted last_balance and
\* low_balance_alert_sent are those of before the tick, and every other API
\* service is still processed in the same tick.
C18_RaiseRollsBackAndContinues ==
    \A n \in ApiNames :
        apiCycle[n].status = "rolled_back" =>
            /\ services[n].last_balance = apiCycle[n].prev_balance
            /\ services[n].low_balance_alert_sent = apiCycle[n].prev_latch
            /\ \A m \in ApiNames \ {n} :
                   /\ Processed(m)
                   /\ apiCycle[m].status = "committed"
                          => services[m].last_balance = apiCycle[m].fetched

\* The low-balance send fails for Zadarma (the first service) after its latch
\* had been set and cleared in memory by a top-up; DIDWW is then committed.
C18_Witness ==
    /\ apiCycle["Zadarma"].status = "rolled_back"
    /\ apiCycle["Zadarma"].topup_sent /\ apiCycle["Zadarma"].low_tried
    /\ ~apiCycle["Zadarma"].low_sent
    /\ apiCycle["Zadarma"].prev_latch
    /\ services["Zadarma"].low_balance_alert_sent
    /\ apiCycle["DIDWW"].status = "committed"
    /\ services["DIDWW"].last_balance = 2000

\* The services due at the tick, from the dates stored before it.
DueBefore ==
    {n \in DailyNames : DailyDue(planned.before[n].next_alert_date, now, sysUtcOffset)}
        \cup {n \in MonthlyNames :
                  MonthlyDue(planned.before[n].next_monthly_alert, now, sysUtcOffset)}

\* C19: an error raised while check_planned_alerts processes one service does
\* not prevent the other due services, daily and monthly, from being
\* evaluated in the same tick.
C19_ErrorDoesNotStopTick ==
    (planned.ran /\ planned.raised) => DueBefore \subseteq planned.tried

\* -------------------------------------------------------------------------
\* Stored balance, checked under SpecBalance.

\* C23: after every successful fetch for an API service whose processing
\* commits, the persisted last_balance equals the balance the provider
\* reported, whether or not a top-up or low-balance notification was emitted
\* in that tick.
C23_StoredBalanceIsFetchedBalance ==
    \A n \in ApiNames :
        (apiCycle[n].response = "ok" /\ apiCycle[n].status = "committed") =>
            /\ apiCycle[n].fetched \in Balances
            /\ services[n].last_balance = apiCycle[n].fetched

\* A committed fetch that differs from the stored balance and emits neither
\* notification, next to one that emits a top-up notification.
C23_Witness ==
    /\ apiCycle["Zadarma"].response = "ok" /\ apiCycle["Zadarma"].status = "committed"
    /\ ~apiCycle["Zadarma"].topup_sent /\ ~apiCycle["Zadarma"].low_sent
    /\ apiCycle["Zadarma"].fetched /= apiCycle["Zadarma"].prev_balance
    /\ services["Zadarma"].last_balance = apiCycle["Zadarma"].fetched
    /\ apiCycle["DIDWW"].response = "ok" /\ apiCycle["DIDWW"].status = "committed"
    /\ apiCycle["DIDWW"].topup_sent

\* C30: an API service disabled in API_SERVICE_STATUSES is skipped in every
\* tick: its balance is not fetched, no notification is emitted for it, and
\* its last_balance and latch do not change.
C30_DisabledServiceIsSkipped ==
    [][ \A n \in ApiNames :
            ~enabled[n] =>
                /\ apiCycle'[n].status = "disabled"
                /\ apiCycle'[n].response = "none"
                /\ apiCycle'[n].fetched = None
                /\ ~apiCycle'[n].topup_tried /\ ~apiCycle'[n].low_tried
                /\ services'[n] = services[n]
                /\ apiRun'[n] = apiRun[n] ]_vars

\* A tick that skips the disabled Zadarma and stores a low balance, with its
\* notification, for the enabled DIDWW.
C30_Witness ==
    /\ ~enabled["Zadarma"] /\ enabled["DIDWW"]
    /\ apiCycle["Zadarma"].status = "disabled"
    /\ services["Zadarma"] = Seeded["Zadarma"]
    /\ apiCycle["DIDWW"].status = "committed" /\ apiCycle["DIDWW"].low_sent
    /\ services["DIDWW"].last_balance = 800

\* -------------------------------------------------------------------------
\* The catalog of records, checked under SpecRecords.

\* A step in which main() starts again on the store as it is.
RestartStep ==
    /\ loop' = LoopStart /\ fsm' = Idle
    /\ capture' = NoCapture /\ planned' = NoPlanned
    /\ apiCycle' = [n \in ApiNames |-> NoCycle]
    /\ now' = now

\* C22: the names of the stored records are always exactly the catalog, no
\* operation creating or deleting one, and running initialize_services again
\* on a store that already holds the records leaves their last_balance,
\* low_balance_alert_sent, next_alert_date and next_monthly_alert unchanged.
C22_SeedingKeepsExistingRecords ==
    [][ /\ DOMAIN services = ServiceNames
        /\ DOMAIN services' = ServiceNames
        /\ RestartStep => services' = services ]_vars

\* After a restart: a balance stored by a tick and a due date stored by a
\* capture are still there, with the conversation and the histories reset.
C22_Witness ==
    /\ capture = NoCapture /\ planned = NoPlanned /\ fsm = Idle
    /\ apiCycle = [n \in ApiNames |-> NoCycle]
    /\ services["Zadarma"].last_balance = 2000
    /\ services["Callii"].next_alert_date /= Seeded["Callii"].next_alert_date
    /\ DOMAIN services = ServiceNames

\* -------------------------------------------------------------------------
\* Monthly reminders whose send fails, checked under SpecCalendarFaults.

\* The monthly services whose stored date was due when the tick began.
MonthlyDueBefore ==
    {n \in MonthlyNames :
        MonthlyDue(planned.before[n].next_monthly_alert, now, sysUtcOffset)}

\* C26: the next_monthly_alert of a monthly service is advanced only after its
\* reminder was sent; when the tick ends without the reminder of a due
\* service having been sent, its stored date is unchanged, so it is still due
\* and the next evaluation sends it.
C26_MonthlyAdvancedOnlyAfterSend ==
    planned.ran =>
        \A n \in MonthlyNames :
            /\ services[n].next_monthly_alert /= planned.before[n].next_monthly_alert
                   => n \in planned.reminded
            /\ (n \in MonthlyDueBefore /\ n \notin planned.reminded) =>
                   /\ services[n].next_monthly_alert
                          = planned.before[n].next_monthly_alert
                   /\ MonthlyDue(services[n].next_monthly_alert, now, sysUtcOffset)
                   /\ n \in PlannedAlerts(services, now, sysUtcOffset,
                                          NoPlannedFaults).reminded

\* The send of a due monthly reminder raised after another monthly service
\* had been reminded and advanced in the same tick.
C26_Witness ==
    /\ planned.ran /\ planned.raised
    /\ \E n \in MonthlyDueBefore, m \in MonthlyDueBefore :
           /\ n \in planned.tried /\ n \notin planned.reminded
           /\ services[n].next_monthly_alert = planned.before[n].next_monthly_alert
           /\ m \in planned.reminded
           /\ services[m].next_monthly_alert /= planned.before[m].next_monthly_alert

\* -------------------------------------------------------------------------
\* Order of the phases in scheduler_loop, checked under SpecLoop.

\* C28: in scheduler_loop a due-date evaluation starts only when the first
\* sleep of the iteration ends, and that sleep starts only when the balance
\* phase of the iteration has returned; after a due-date evaluation, after an
\* error pause and after a balance phase that raised, the loop goes on with a
\* balance phase (or ends).  Hence between two runs of check_planned_alerts
\* there is a completed run of check_api_balances, and an iteration whose
\* balance phase raises performs no due-date evaluation.
C28_BalancePhaseBeforeDueDates ==
    [][ /\ (loop'.pc = InPlanned /\ loop.pc /= InPlanned) => loop.pc = SleepApi
        /\ (loop'.pc = SleepApi /\ loop.pc /= SleepApi) =>
               (loop.pc = InBalances /\ ~loop'.raised)
        /\ (loop.pc = InBalances /\ loop'.raised) => loop'.pc \in {Backoff, Done}
        /\ (loop.pc \in {InPlanned, SleepPlanned, Backoff} /\ loop'.pc /= loop.pc) =>
               loop'.pc \in {SleepPlanned, Backoff, InBalances, Done}
        /\ (loop.pc \in {SleepPlanned, Backoff} /\ loop'.pc /= loop.pc) =>
               loop'.pc \in {InBalances, Done}
        /\ planned' /= planned /\ planned'.ran => loop.pc = InPlanned ]_vars

\* A due-date evaluation has run in an iteration that follows one ended by an
\* exception, after the balance phase of its own iteration stored a balance.
C28_Witness ==
    /\ loop.pc = SleepPlanned /\ loop.recovered
    /\ planned.ran
    /\ apiCycle["Zadarma"].status = "committed"

\* -------------------------------------------------------------------------
\* One conversation for both capture flows, checked under SpecCapture.

AmountHandlers == {"process_callii_amount", "process_wazzup_amount"}

\* A message matching the numeric pattern is handled in this step.
AmountHandled ==
    /\ capture'.handler \in AmountHandlers
    /\ capture' /= capture

\* C25: the Callii and Wazzup flows share one conversation state, so at most
\* one capture is pending: an acknowledgement makes its own service the
\* pending one whatever was pending before, no other step changes which
\* service is pending, and a valid amount is processed for the pending
\* service, the one most recently acknowledged: it changes the
\* next_alert_date of that service only, by that service's daily cost.
C25_OnePendingCapture ==
    [][ /\ fsm \in FsmStates
        /\ Acknowledged => fsm' = WaitingStateOf(capture'.service)
        /\ ~Acknowledged => fsm' \in {fsm, Idle}
        /\ AmountHandled =>
               /\ fsm = WaitingStateOf(capture'.service)
               /\ capture.handler \in AcknowledgementHandlers
                      => capture'.service = capture.service
               /\ capture'.days
                      = CoverageDays(capture'.amount, DailyCostOf(capture'.service))
               /\ \A n \in ServiceNames \ {capture'.service} :
                      services'[n] = services[n]
               /\ capture'.reply = "confirmed" =>
                      services' = [services EXCEPT
                                      ![capture'.service].next_alert_date =
                                          NextAlertDatetime(now, capture'.days)] ]_vars

\* "400" confirmed for Wazzup (one day at its daily cost; 181 days at Callii's)
\* with the Callii due date as seeded.
C25_Witness ==
    /\ capture.handler = "process_wazzup_amount"
    /\ capture.fsm_before = WazzupWaiting
    /\ capture.amount = 40000 /\ capture.days = 1
    /\ capture.reply = "confirmed"
    /\ services["Wazzup24 Balance"].next_alert_date = NextAlertDatetime(now, 1)
    /\ services["Callii"].next_alert_date = Seeded["Callii"].next_alert_date
    /\ fsm = Idle

\* -------------------------------------------------------------------------
\* Who writes which field, checked under SpecRecords.

BalanceFields(row) == <<row.last_balance, row.low_balance_alert_sent>>

\* C27: each component writes only its own fields.  last_balance and
\* low_balance_alert_sent change only in a tick of check_api_balances, for a
\* service of API_CLIENTS it committed, with no due date changing;
\* next_monthly_alert changes only in a tick of check_planned_alerts, for a
\* monthly service it reminded, with nothing else changing; next_alert_date
\* changes only in a payment capture, for the service of that capture, with
\* nothing else changing; the /balance command changes no record.
C27_ComponentsWriteOwnFields ==
    [][ /\ \A n \in ServiceNames :
            /\ BalanceFields(services'[n]) /= BalanceFields(services[n]) =>
                   /\ n \in ApiNames
                   /\ apiCycle'[n].status = "committed"
                   /\ capture' = capture /\ planned' = planned /\ fsm' = fsm
                   /\ DueDates(services') = DueDates(services)
            /\ services'[n].next_monthly_alert /= services[n].next_monthly_alert =>
                   /\ n \in MonthlyNames
                   /\ planned'.ran /\ n \in planned'.reminded
                   /\ capture' = capture /\ apiCycle' = apiCycle /\ fsm' = fsm
                   /\ \A m \in ServiceNames :
                          /\ BalanceFields(services'[m]) = BalanceFields(services[m])
                          /\ services'[m].next_alert_date = services[m].next_alert_date
            /\ services'[n].next_alert_date /= services[n].next_alert_date =>
                   /\ capture'.handler \in AmountHandlers
                   /\ capture'.service = n
                   /\ n = (IF capture'.handler = "process_callii_amount"
                           THEN "Callii" ELSE "Wazzup24 Balance")
                   /\ planned' = planned /\ apiCycle' = apiCycle
                   /\ services' = [services EXCEPT
                                      ![n].next_alert_date = services'[n].next_alert_date]
        /\ (capture'.handler = "handle_balance_command" /\ capture' /= capture) =>
               (services' = services /\ fsm' = fsm) ]_vars

\* The /balance command answered after a tick stored a balance, a capture
\* moved the Callii due date and a monthly reminder advanced its date.
C27_Witness ==
    /\ capture.handler = "handle_balance_command"
    /\ apiCycle["Zadarma"].status = "committed"
    /\ services["Zadarma"].last_balance = 2000
    /\ services["Callii"].next_alert_date /= Seeded["Callii"].next_alert_date
    /\ services["Streamtele"].next_monthly_alert
           /= Seeded["Streamtele"].next_monthly_alert
    /\ services["Wazzup24 Balance"] = Seeded["Wazzup24 Balance"]

\* -------------------------------------------------------------------------
\* A capture during a calendar evaluation, checked under SpecRace.

\* C21: a next_alert_date committed by a payment capture is not lost to a
\* check_planned_alerts call running at the same time: no step of the call
\* changes a next_alert_date, also when it commits from a session that had
\* loaded the row before the capture, and whenever the last capture was
\* confirmed the stored date of its service is the one it wrote.
C21_CapturedDateNotLost ==
    [][ /\ tick' /= tick =>
               \A n \in ServiceNames :
                   services'[n].next_alert_date = services[n].next_alert_date
        /\ capture'.reply = "confirmed" =>
               services'[capture'.service].next_alert_date
                   = NextAlertDatetime(now', capture'.days) ]_vars

\* The call has returned after committing a monthly date from a session that
\* held the Callii row as it was before the capture; the captured date is
\* stored.
C21_Witness ==
    /\ tick.phase = "idle" /\ tick.stale_commit
    /\ capture.handler = "process_callii_amount" /\ capture.reply = "confirmed"
    /\ services["Wazzup24 Balance"] = Seeded["Wazzup24 Balance"]
    /\ services["Callii"].next_alert_date = NextAlertDatetime(now, capture.days)
    /\ services["Callii"].next_alert_date /= capture.date_before
    /\ services["Streamtele"].next_monthly_alert
           /= Seeded["Streamtele"].next_monthly_alert

\* C24: no reminder is emitted for a daily service whose stored
\* next_alert_date, as committed by a capture, is later than the local date,
\* under every interleaving of the capture with a check_planned_alerts call,
\* including a call that had loaded the records before the capture committed.
C24_NoReminderBeforeNewDueDate ==
    [][ \A n \in DailyNames :
            (n \in tick'.reminded /\ n \notin tick.reminded) =>
                DailyDue(services[n].next_alert_date, now, sysUtcOffset) ]_vars

\* -------------------------------------------------------------------------
\* Events from other chats, checked under SpecCapture.

\* An event from outside the target chat is received in this step.
ForeignReceived == capture'.foreign /\ capture' /= capture

\* C29: a message or acknowledgement from a chat other than TARGET_CHAT_ID
\* never reaches a handler: TargetChatFilter ends its processing, and it
\* changes neither the conversation state nor any service record, whatever
\* the conversation state is; only a message is answered, with the warning.
C29_ForeignEventsChangeNothing ==
    [][ ForeignReceived =>
            /\ capture'.handler = "TargetChatFilter"
            /\ capture'.reply \in {"warning", "ignored"}
            /\ fsm' = fsm /\ capture'.fsm_before = fsm
            /\ services' = services ]_vars

\* A message from another chat rejected while the Wazzup amount is awaited
\* and a captured Callii date is stored.
C29_Witness ==
    /\ capture.foreign /\ capture.handler = "TargetChatFilter"
    /\ capture.reply = "warning"
    /\ fsm = WazzupWaiting
    /\ services["Callii"].next_alert_date /= Seeded["Callii"].next_alert_date

====
